---------------------------- MODULE Spec2Model ----------------------------
(***************************************************************************)
(* A model of the two functions of the repository:                         *)
(*                                                                         *)
(*   src/L2/cross_entropy.py   cross_entropy(Y, P)                         *)
(*   src/L2/softmax.py         softmax(L)                                  *)
(*                                                                         *)
(* A state is one call in progress: the function called, its arguments,    *)
(* its local variables, its position and how it ended.                     *)
(*                                                                         *)
(* Floating-point values are modelled as IEEE-754 values of reduced        *)
(* precision: a finite value is an integer count of 1/Scale units (every   *)
(* operation rounds to that grid), and +inf, -inf and NaN are values of    *)
(* their own that propagate as IEEE-754 prescribes (numpy's np.log and     *)
(* np.exp and numpy's float division signal a warning and return them;     *)
(* they do not raise).  Signed zeros are not distinguished.                *)
(* Probabilities are given in tenths (9 stands for 0.9), labels and logits *)
(* are integers.                                                           *)
(***************************************************************************)
EXTENDS Integers, Sequences, FiniteSets

(* ------------------------------ bounds -------------------------------- *)

\* Longest argument sequence drawn for a call.
MaxLen == 4

\* Labels, probabilities (in tenths) and logits the arguments are drawn from.
Labels == {0, 1}
Probs == {0, 1, 2, 8, 9, 10}
Logits == {-750, -1, 0, 1, 720}
\* Uniform shifts applied to a logit sequence.
Shifts == {-1500, -1, 1, 1500}

(* ------------------------- floating-point values ---------------------- *)

\* Finite values are counted in units of 1/Scale.
Scale == 10000
\* The literal 1 of `1-p`, in the tenths the probabilities are given in.
ProbUnit == 10

Fin(n) == [kind |-> "fin", v |-> n]
PosInf == [kind |-> "inf", v |-> 1]
NegInf == [kind |-> "inf", v |-> -1]
NaN == [kind |-> "nan", v |-> 0]

IsFinite(a) == a.kind = "fin"
IsNaN(a) == a.kind = "nan"

Abs(n) == IF n < 0 THEN -n ELSE n
Sign(n) == IF n < 0 THEN -1 ELSE IF n > 0 THEN 1 ELSE 0
Min(a, b) == IF a < b THEN a ELSE b

\* -a
FNeg(a) ==
    CASE a.kind = "nan" -> NaN
      [] a.kind = "inf" -> [kind |-> "inf", v |-> -a.v]
      [] OTHER -> Fin(-a.v)

\* a + b: NaN propagates, inf + -inf is NaN, inf absorbs finite values.
FAdd(a, b) ==
    CASE a.kind = "nan" \/ b.kind = "nan" -> NaN
      [] a.kind = "inf" /\ b.kind = "inf" -> IF a.v = b.v THEN a ELSE NaN
      [] a.kind = "inf" -> a
      [] b.kind = "inf" -> b
      [] OTHER -> Fin(a.v + b.v)

\* a - b
FSub(a, b) == FAdd(a, FNeg(b))

\* n * a for a Python int n: 0 * inf is NaN.
FMulInt(n, a) ==
    CASE a.kind = "nan" -> NaN
      [] a.kind = "inf" ->
            IF n = 0 THEN NaN ELSE [kind |-> "inf", v |-> Sign(n) * a.v]
      [] OTHER -> Fin(n * a.v)

\* a / b rounded to the nearest unit: inf/inf and 0/0 are NaN, x/0 is an
\* infinity, x/inf is 0.  No case raises (numpy float division).
FDiv(a, b) ==
    CASE a.kind = "nan" \/ b.kind = "nan" -> NaN
      [] a.kind = "inf" /\ b.kind = "inf" -> NaN
      [] a.kind = "inf" ->
            [kind |-> "inf", v |-> a.v * (IF b.v < 0 THEN -1 ELSE 1)]
      [] b.kind = "inf" -> Fin(0)
      [] b.v = 0 ->
            IF a.v = 0 THEN NaN ELSE [kind |-> "inf", v |-> Sign(a.v)]
      [] OTHER ->
            Fin(Sign(a.v) * Sign(b.v)
                * ((2 * Abs(a.v) * Scale + Abs(b.v)) \div (2 * Abs(b.v))))

(* ------------------------------ np.log -------------------------------- *)

\* ln(p/10) for p = 1..10, in units of 1/Scale.
LogTable ==
    <<-23026, -16094, -12040, -9163, -6931, -5108, -3567, -2231, -1054, 0>>

\* np.log(p): -inf at 0 and NaN below it, each with a RuntimeWarning.
Log(p) ==
    IF p < 0 THEN NaN
    ELSE IF p = 0 THEN NegInf
    ELSE Fin(LogTable[p])

\* np.log at 0 or below warns and returns; math.log would raise ValueError.
LogRaisesMath(p) == p <= 0

\* Whether np.log(p) raises: never.
LogRaises(p) == FALSE

(* ------------------------------ np.exp -------------------------------- *)

\* float64: exp(x) is inf from x = 710 on and 0.0 from x = -746 down.
ExpOverflowAt == 710
ExpUnderflowAt == -746

\* e^x for x = -2..2, in units of 1/Scale.
ExpTable == <<1353, 3679, 10000, 27183, 73891>>

\* np.exp(x) for one element.
Exp(x) ==
    IF x >= ExpOverflowAt THEN PosInf
    ELSE IF x <= ExpUnderflowAt THEN Fin(0)
    ELSE Fin(ExpTable[x + 3])

(* --------------------------- cross_entropy ---------------------------- *)

\* The per-element term with p and 1-p exchanged.
CETermSwapped(y, p) ==
    FAdd(FMulInt(y, Log(ProbUnit - p)), FMulInt(1 - y, Log(p)))

\* The per-element term with the (1-y) half dropped.
CETermNoComplement(y, p) == FMulInt(y, Log(p))

\* y * np.log(p) + (1-y) * np.log(1-p)
CETerm(y, p) ==
    FAdd(FMulInt(y, Log(p)), FMulInt(1 - y, Log(ProbUnit - p)))

\* `ce += ...` in place of `ce -= ...`.
CEStepAdd(acc, y, p) == FAdd(acc, CETerm(y, p))

\* One loop iteration: ce -= (...)
CEStep(acc, y, p) == FSub(acc, CETerm(y, p))

\* zip(Y, P, strict=True) raises ValueError on a length mismatch.
ZipRaisesStrict(A, B) == Len(A) # Len(B)

\* Whether zip(Y, P) raises when the shorter argument is exhausted: never.
ZipRaises(A, B) == FALSE

\* The number of pairs zip(Y, P) yields.
ZipLen(A, B) == Min(Len(A), Len(B))

\* cross_entropy's accumulator after n iterations over zip(A, B).
RECURSIVE CEFold(_, _, _)
CEFold(A, B, n) ==
    IF n = 0 THEN Fin(0) ELSE CEStep(CEFold(A, B, n - 1), A[n], B[n])

(* ------------------------------ softmax ------------------------------- *)

\* score = np.exp(L)
NpExp(S) == [k \in 1..Len(S) |-> Exp(S[k])]

\* sum() with the last element left out.
RECURSIVE PySumDropLast(_)
PySumDropLast(S) ==
    IF Len(S) <= 1 THEN Fin(0)
    ELSE FAdd(PySumDropLast(SubSeq(S, 1, Len(S) - 1)), S[Len(S) - 1])

\* Python's sum(score): starts at int 0 and adds from left to right.
RECURSIVE PySum(_)
PySum(S) ==
    IF S = <<>> THEN Fin(0)
    ELSE FAdd(PySum(SubSeq(S, 1, Len(S) - 1)), S[Len(S)])

\* The quotients in reverse order.
NormalizeReversed(S, t) == [k \in 1..Len(S) |-> FDiv(S[Len(S) + 1 - k], t)]

\* [i/total for i in score]
Normalize(S, t) == [k \in 1..Len(S) |-> FDiv(S[k], t)]

\* The normaliser checked before the comprehension: an empty or all-zero
\* score raises.
DivRaisesEager(S, t) == t = Fin(0)

\* Whether some i/total of the comprehension raises: numpy float division
\* never does, and an empty score divides nothing.
DivRaises(S, t) == \E k \in 1..Len(S) : FALSE

\* softmax(L) as a value.
Softmax(S) == Normalize(NpExp(S), PySum(NpExp(S)))

\* [x + c for x in L]
Shift(S, c) == [k \in 1..Len(S) |-> S[k] + c]

(* ------------------------------- state -------------------------------- *)

VARIABLES
    fn,       \* the function called: "cross_entropy" or "softmax"
    Y, P,     \* cross_entropy's arguments
    L,        \* softmax's argument
    pc,       \* position in the function's body
    ce,       \* cross_entropy's accumulator
    i,        \* pairs of zip(Y, P) consumed so far
    score,    \* softmax: np.exp(L)
    total,    \* softmax: sum(score)
    out,      \* softmax: the returned list
    outcome   \* "running", "returned" or "raised"

vars == <<fn, Y, P, L, pc, ce, i, score, total, out, outcome>>

\* The shape of a state: arguments, locals and the way the call ended.
TypeOK ==
    /\ fn \in {"cross_entropy", "softmax"}
    /\ Y \in Seq(Labels) /\ P \in Seq(Probs) /\ L \in Seq(Logits)
    /\ pc \in {"loop", "exp", "sum", "div", "done"}
    /\ ce.kind \in {"fin", "inf", "nan"} /\ ce.v \in Int
    /\ i \in 0..ZipLen(Y, P)
    /\ Len(score) \in {0, Len(L)} /\ Len(out) \in {0, Len(L)}
    /\ total.kind \in {"fin", "inf", "nan"} /\ total.v \in Int
    /\ outcome \in {"running", "returned", "raised"}
    /\ (outcome = "running") = (pc # "done")

SeqsUpTo(S, n) == UNION {[1..k -> S] : k \in 0..n}

\* A call of cross_entropy(Y, P): ce = 0.
InitCE ==
    /\ fn = "cross_entropy"
    /\ Y \in SeqsUpTo(Labels, MaxLen)
    /\ P \in SeqsUpTo(Probs, MaxLen)
    /\ L = <<>>
    /\ pc = "loop"
    /\ ce = Fin(0)

\* A call of softmax(L).
InitSM ==
    /\ fn = "softmax"
    /\ Y = <<>>
    /\ P = <<>>
    /\ L \in SeqsUpTo(Logits, MaxLen)
    /\ pc = "exp"
    /\ ce = Fin(0)

Init ==
    /\ InitCE \/ InitSM
    /\ i = 0
    /\ score = <<>>
    /\ total = Fin(0)
    /\ out = <<>>
    /\ outcome = "running"

\* for y, p in zip(Y, P): ce -= (y * np.log(p) + (1-y) * np.log(1-p))
CELoop ==
    /\ fn = "cross_entropy"
    /\ pc = "loop"
    /\ i < ZipLen(Y, P)
    /\ LET y == Y[i + 1]
           p == P[i + 1]
       IN  IF LogRaises(p) \/ LogRaises(ProbUnit - p)
           THEN /\ pc' = "done"
                /\ outcome' = "raised"
                /\ UNCHANGED <<ce, i>>
           ELSE /\ ce' = CEStep(ce, y, p)
                /\ i' = i + 1
                /\ UNCHANGED <<pc, outcome>>
    /\ UNCHANGED <<fn, Y, P, L, score, total, out>>

\* zip(Y, P) is exhausted: return ce
CEReturn ==
    /\ fn = "cross_entropy"
    /\ pc = "loop"
    /\ i = ZipLen(Y, P)
    /\ pc' = "done"
    /\ outcome' = IF ZipRaises(Y, P) THEN "raised" ELSE "returned"
    /\ UNCHANGED <<fn, Y, P, L, ce, i, score, total, out>>

\* score = np.exp(L)
SMExp ==
    /\ fn = "softmax"
    /\ pc = "exp"
    /\ score' = NpExp(L)
    /\ pc' = "sum"
    /\ UNCHANGED <<fn, Y, P, L, ce, i, total, out, outcome>>

\* total = sum(score)
SMSum ==
    /\ fn = "softmax"
    /\ pc = "sum"
    /\ total' = PySum(score)
    /\ pc' = "div"
    /\ UNCHANGED <<fn, Y, P, L, ce, i, score, out, outcome>>

\* return [i/total for i in score]
SMReturn ==
    /\ fn = "softmax"
    /\ pc = "div"
    /\ pc' = "done"
    /\ IF DivRaises(score, total)
       THEN /\ outcome' = "raised"
            /\ UNCHANGED out
       ELSE /\ outcome' = "returned"
            /\ out' = Normalize(score, total)
    /\ UNCHANGED <<fn, Y, P, L, ce, i, score, total>>

Next == CELoop \/ CEReturn \/ SMExp \/ SMSum \/ SMReturn

Spec == Init /\ [][Next]_vars

(* ------------------------------ claims -------------------------------- *)

Done == pc = "done"
CECall == fn = "cross_entropy"
SMCall == fn = "softmax"

\* Every one of the first n probabilities lies strictly inside (0, 1).
StrictProbs(B, n) == \A k \in 1..n : B[k] > 0 /\ B[k] < ProbUnit

\* Some paired probability is exactly 0 or exactly 1.
SomeEdgeProb == \E k \in 1..ZipLen(Y, P) : P[k] = 0 \/ P[k] = ProbUnit

\* sum over k in 1..n of A[k] * ln(B[k]) + (1 - A[k]) * ln(1 - B[k]), in plain
\* integer arithmetic over the units of 1/Scale.
RECURSIVE LogLikelihood(_, _, _)
LogLikelihood(A, B, n) ==
    IF n = 0 THEN 0
    ELSE LogLikelihood(A, B, n - 1)
         + A[n] * LogTable[B[n]] + (1 - A[n]) * LogTable[ProbUnit - B[n]]

\* sum over k in 1..n of exp(S[k]).
RECURSIVE SumExp(_, _)
SumExp(S, n) == IF n = 0 THEN Fin(0) ELSE FAdd(Exp(S[n]), SumExp(S, n - 1))

\* The sum of n finite values, in units of 1/Scale.
RECURSIVE SumUnits(_, _)
SumUnits(S, n) == IF n = 0 THEN 0 ELSE SumUnits(S, n - 1) + S[n].v

\* a and b are finite and differ by at most tol units.
Close(a, b, tol) == IsFinite(a) /\ IsFinite(b) /\ Abs(a.v - b.v) <= tol

\* C1: for Y and P of equal length N >= 0 with every P_i strictly inside
\* (0, 1), cross_entropy(Y, P) returns -sum_i [Y_i ln(P_i) + (1 - Y_i)
\* ln(1 - P_i)], the i-th label paired with the i-th probability; for N = 0
\* the result is 0.
C1_CrossEntropyFormula ==
    (CECall /\ Done /\ Len(Y) = Len(P) /\ StrictProbs(P, Len(P)))
        => /\ outcome = "returned"
           /\ i = Len(Y)
           /\ ce = Fin(-LogLikelihood(Y, P, Len(Y)))
           /\ (Len(Y) = 0 => ce = Fin(0))

C1_Witness ==
    /\ CECall /\ Done /\ outcome = "returned"
    /\ Len(Y) = 3 /\ Len(P) = 3 /\ StrictProbs(P, 3)
    /\ Y = <<1, 0, 1>> /\ P[1] # P[3]
    /\ ce = Fin(-LogLikelihood(Y, P, 3)) /\ ce.v > 0

C3_RaisesOnEdgeProb ==
    (CECall /\ Done /\ SomeEdgeProb) => outcome = "raised"

\* C3 as amended: whenever some paired probability is exactly 0 or exactly
\* 1, the call raises nothing and returns a non-finite value (an infinity or
\* NaN).
C3_NonFiniteOnEdgeProb ==
    (CECall /\ Done /\ SomeEdgeProb)
        => outcome = "returned" /\ ~IsFinite(ce)

C3_Witness ==
    /\ CECall /\ Done /\ outcome = "returned"
    /\ Y = <<1>> /\ P = <<0>> /\ ce = PosInf

\* C4 as claimed: softmax of an empty sequence signals an error to the
\* caller rather than returning a result.
C4_EmptyRaises ==
    (SMCall /\ Done /\ L = <<>>) => outcome = "raised"

\* C4 as amended: softmax of an empty sequence raises nothing and returns
\* the empty list; no division is executed.
C4_EmptyReturnsEmpty ==
    (SMCall /\ Done /\ L = <<>>)
        => outcome = "returned" /\ out = <<>>

C4_Witness ==
    /\ SMCall /\ Done /\ L = <<>> /\ score = <<>> /\ total = Fin(0)
    /\ outcome = "returned"

\* No exponential of S overflows to inf or underflows to 0.
InExpRange(S) ==
    \A k \in 1..Len(S) : IsFinite(Exp(S[k])) /\ Exp(S[k]) # Fin(0)

\* C5 as claimed: for every non-empty L (length 1 included) and every index
\* i, 0 < softmax(L)_i < 1.  Stated here on the inputs whose exponentials
\* neither overflow nor underflow, where no loss of float range is involved.
C5_StrictlyInsideUnit ==
    (SMCall /\ Done /\ L # <<>> /\ InExpRange(L))
        => \A k \in 1..Len(out) :
              IsFinite(out[k]) /\ out[k].v > 0 /\ out[k].v < Scale

\* C5 as amended: for every non-empty L and every index i, softmax(L)_i is
\* NaN or lies in the closed interval [0, 1]; for a length-1 L whose
\* exponential is finite and non-zero the single element is exactly 1.
C5_InsideClosedUnit ==
    (SMCall /\ Done /\ L # <<>>)
        => /\ outcome = "returned"
           /\ Len(out) = Len(L)
           /\ \A k \in 1..Len(out) :
                 \/ IsNaN(out[k])
                 \/ IsFinite(out[k]) /\ out[k].v >= 0 /\ out[k].v <= Scale
           /\ (Len(L) = 1 /\ InExpRange(L)) => out[1] = Fin(Scale)

C5_Witness ==
    /\ SMCall /\ Done /\ outcome = "returned"
    /\ L = <<0>> /\ out = <<Fin(Scale)>>

\* C6: for every non-empty L the elements of softmax(L) are all
\* non-negative and sum to 1 within tolerance (half a unit per rounded
\* quotient).
C6_Distribution ==
    (SMCall /\ Done /\ L # <<>>)
        => /\ \A k \in 1..Len(out) : IsFinite(out[k]) /\ out[k].v >= 0
           /\ Abs(SumUnits(out, Len(out)) - Scale) <= Len(out)

\* C7: for P with every element strictly in (0, 1) and Y of the same length
\* with every element in {0, 1}, the accumulator ce is non-negative after
\* every loop iteration, and so is the returned value.
C7_NonNegative ==
    (CECall /\ Len(Y) = Len(P) /\ StrictProbs(P, Len(P))
        /\ \A k \in 1..Len(Y) : Y[k] \in {0, 1})
        => IsFinite(ce) /\ ce.v >= 0

C7_Witness ==
    /\ CECall /\ pc = "loop" /\ Len(Y) = Len(P) /\ StrictProbs(P, Len(P))
    /\ i > 0 /\ i < Len(Y) /\ ce.v > 0

\* Tolerance of the shift comparison: three decimal places.
ShiftTol == Scale \div 1000

\* C8: for every non-empty L and every constant c, softmax([x + c for x in
\* L]) equals softmax(L) element by element (within tolerance).
C8_ShiftInvariant ==
    (SMCall /\ Done /\ L # <<>>)
        => \A c \in Shifts :
              LET shifted == Softmax(Shift(L, c))
              IN  /\ Len(shifted) = Len(out)
                  /\ \A k \in 1..Len(out) : Close(shifted[k], out[k], ShiftTol)

\* C9 as claimed: cross_entropy([1, 0, 0, 1], [0.9, 0.1, 0.2, 0.8]) is
\* approximately 0.5108.
C9_Scenario == CECall /\ Done /\ Y = <<1, 0, 0, 1>> /\ P = <<9, 1, 2, 8>>

C9_ApproxClaimed == C9_Scenario => Close(ce, Fin(5108), Len(Y))

\* C9 as amended: cross_entropy([1, 0, 0, 1], [0.9, 0.1, 0.2, 0.8]) is
\* approximately 0.6570, the sum of the four terms -ln(0.9), -ln(1 - 0.1),
\* -ln(1 - 0.2), -ln(0.8).
C9_ApproxAmended ==
    C9_Scenario
        => /\ outcome = "returned"
           /\ Close(ce, Fin(6570), Len(Y))
           /\ ce = FSub(FSub(FSub(FNeg(Log(9)), Log(ProbUnit - 1)),
                             Log(ProbUnit - 2)), Log(8))

C9_Witness == C9_Scenario /\ outcome = "returned" /\ i = 4 /\ IsFinite(ce)

\* C10: when Y and P differ in length, cross_entropy raises nothing and
\* performs exactly min(len(Y), len(P)) iterations; its result is that of
\* cross_entropy on the first min(len(Y), len(P)) elements of each, so the
\* excess elements of the longer sequence never affect it.
C10_TruncatesToShorter ==
    (CECall /\ Done /\ Len(Y) # Len(P))
        => LET m == Min(Len(Y), Len(P))
           IN  /\ outcome = "returned"
               /\ i = m
               /\ ce = CEFold(SubSeq(Y, 1, m), SubSeq(P, 1, m), m)

C10_Witness ==
    /\ CECall /\ Done /\ outcome = "returned"
    /\ Len(Y) = 3 /\ Len(P) = 1 /\ i = 1
    /\ Y[1] = 1 /\ P[1] = 8 /\ ce = Fin(2231)

=============================================================================
